---- MODULE Spec2Model ----
(***************************************************************************)
(* The crawler / indexer pipeline of the search engine:                    *)
(*   cpp/crawler/src/main.cpp, cpp/crawler/src/warc_writer.cpp,            *)
(*   cpp/indexer/src/main.cpp, cpp/indexer/src/utils.cpp.                  *)
(*                                                                         *)
(* A std::string is a sequence of one-character strings.  The fixed field  *)
(* names of a WARC header are kept as single symbols; CR and LF are always *)
(* separate symbols, so that find("\r\n\r\n") is computed, not assumed.    *)
(***************************************************************************)
EXTENDS Integers, Sequences, FiniteSets, TLC

\* ------------------------------------------------------------------ bounds
\* URLs an outside producer may push onto crawl_queue during a run.
MaxPushes == 1
\* Crashes (with restart) of crawler processes during a run.
MaxCrashes == 1
\* write_record calls of the writer and thread harnesses (SpecWarc,
\* SpecThreads).
MaxRecords == 3
\* Merge steps of the merge harness (SpecMerge).
MaxMerges == 3
\* Length of the texts given to tokenize (SpecTok).
MaxTextLen == 7
\* Children of an element of the trees given to clean_text (SpecDom).
MaxChildren == 2

\* ------------------------------------------------------- program constants
MIN_URL_LENGTH == 10
MAX_RETRIES == 3

\* SQL NULL of the integer columns "offset", length, doc_length.
NULL == 0 - 1
\* SQL NULL of the text column file_path.
NULL_PATH == "NULL"

CR == "\r"
LF == "\n"
CRLFCRLF == <<CR, LF, CR, LF>>

\* --------------------------------------------------------- byte strings
\* The characters the model uses, in ASCII order (std::string compares bytes).
AsciiOrder ==
  <<LF, CR, " ", ",", "-", ".", "/",
    "0", "1", "2", "3", "4", "5", "6", "7", "8", "9", ":",
    "C", "M", "P", "W", "_",
    "a", "b", "c", "d", "e", "f", "g", "h", "i", "k", "m", "n", "o", "p", "r",
    "s", "t", "w">>

Ord(c) == CHOOSE i \in 1..Len(AsciiOrder) : AsciiOrder[i] = c

Min2(a, b) == IF a < b THEN a ELSE b

\* std::string operator< : lexicographic on bytes, a proper prefix is smaller.
RECURSIVE StrLess(_, _)
StrLess(s, t) ==
  IF t = <<>> THEN FALSE
  ELSE IF s = <<>> THEN TRUE
  ELSE IF s[1] = t[1] THEN StrLess(Tail(s), Tail(t))
  ELSE Ord(s[1]) < Ord(t[1])

\* Iteration order of a std::set<std::string>: ascending under operator<.
RECURSIVE SetToSortedSeq(_)
SetToSortedSeq(S) ==
  IF S = {} THEN <<>>
  ELSE LET m == CHOOSE x \in S : \A y \in S \ {x} : StrLess(x, y)
       IN  <<m>> \o SetToSortedSeq(S \ {m})

\* s.substr(from) with a 1-based index; empty when from is past the end.
SubstrFrom(s, from) == SubSeq(s, from, Len(s))

\* s.find(pat): the least 1-based index where pat occurs in s, 0 for npos.
Find(s, pat) ==
  LET hits == { i \in 1..(Len(s) - Len(pat) + 1) :
                  SubSeq(s, i, i + Len(pat) - 1) = pat }
  IN  IF hits = {} THEN 0 ELSE CHOOSE i \in hits : \A j \in hits : i <= j

\* s.compare(0, Len(p), p) == 0
HasPrefix(s, p) == SubSeq(s, 1, Min2(Len(s), Len(p))) = p

Digits == <<"0", "1", "2", "3", "4", "5", "6", "7", "8", "9">>

\* std::to_string / printf("%d") of a non-negative int.
RECURSIVE to_string(_)
to_string(n) ==
  IF n < 10 THEN <<Digits[n + 1]>>
  ELSE to_string(n \div 10) \o <<Digits[(n % 10) + 1]>>

IsDigit(c) == \E i \in 1..10 : Digits[i] = c

DigitVal(c) == (CHOOSE i \in 1..10 : Digits[i] = c) - 1

\* std::stoi on a string of the queue: the leading digits are converted, what
\* follows them is ignored; no leading digit throws (BadInt).
BadInt == 0 - 1

RECURSIVE StoiAcc(_, _)
StoiAcc(s, acc) ==
  IF s = <<>> \/ ~IsDigit(s[1]) THEN acc
  ELSE StoiAcc(Tail(s), acc * 10 + DigitVal(s[1]))

stoi(s) == IF s = <<>> \/ ~IsDigit(s[1]) THEN BadInt ELSE StoiAcc(s, 0)

\* ------------------------------------------------------------ WarcWriter
\* WARC-Date and WARC-Record-ID are diagnostic values (time, random uuid); the
\* model keeps one symbol for each.
WARC_DATE == "<date>"
WARC_UUID == "<uuid>"

create_warc_header(url, content_length) ==
  <<"WARC/1.0", CR, LF, "WARC-Type: response", CR, LF, "WARC-Target-URI: ">>
  \o url
  \o <<CR, LF, "WARC-Date: ", WARC_DATE, CR, LF,
       "WARC-Record-ID: <urn:uuid:", WARC_UUID, ">", CR, LF,
       "Content-Type: application/http; msgtype=response", CR, LF,
       "Content-Length: ">>
  \o to_string(content_length)
  \o CRLFCRLF

\* warc_header + content + "\r\n\r\n"
full_record(url, content) ==
  create_warc_header(url, Len(content)) \o content \o CRLFCRLF

\* One gzip member: a self-delimiting, integrity-checked framing of the input
\* (magic, the deflate stream carrying its own end, the CRC trailer).  The
\* member's length differs from the input's.
GZ_MAGIC == "<gzip>"
GZ_DATA == "<deflate>"
GZ_CRC == "<crc32>"

compress_string(str) ==
  <<GZ_MAGIC>> \o to_string(Len(str)) \o <<GZ_DATA>> \o str \o <<GZ_CRC>>

\* The indexer's decompress_gzip: inflate the first member of the input.  A
\* missing magic, a truncated stream or a bad trailer throws (ok = FALSE);
\* bytes after the member's end are not looked at (the loop ends on
\* Z_STREAM_END).
decompress_gzip(data) ==
  LET bad == [ok |-> FALSE, out |-> <<>>, used |-> 0]
      sep == Find(data, <<GZ_DATA>>)
  IN  IF data = <<>> \/ data[1] # GZ_MAGIC \/ sep < 3 THEN bad
      ELSE LET num == SubSeq(data, 2, sep - 1)
           IN  IF \E i \in 1..Len(num) : ~IsDigit(num[i]) THEN bad
               ELSE LET n == stoi(num)
                        last == sep + n + 1
                    IN  IF Len(data) < last \/ data[last] # GZ_CRC THEN bad
                        ELSE [ok |-> TRUE,
                              out |-> SubSeq(data, sep + 1, sep + n),
                              used |-> last]

\* The value of the WARC-Target-URI field of a decompressed record.
TargetUri(record) ==
  LET k == Find(record, <<"WARC-Target-URI: ">>)
      rest == SubstrFrom(record, k + 1)
      e == Find(rest, <<CR, LF>>)
  IN  IF k = 0 \/ e = 0 THEN <<>> ELSE SubSeq(rest, 1, e - 1)

\* Mutant of StripHeader: npos is not tested, and npos + 4 wraps to 3.
StripHeaderUnchecked(full_warc_record) ==
  LET header_end == Find(full_warc_record, CRLFCRLF)
  IN  [found |-> TRUE,
       html_content |-> SubstrFrom(full_warc_record, header_end + 4)]

\* The indexer's header strip: everything after the first CRLF CRLF.
\* found = FALSE is the `continue` on npos.
StripHeader(full_warc_record) ==
  LET header_end == Find(full_warc_record, CRLFCRLF)
  IN  IF header_end = 0 THEN [found |-> FALSE, html_content |-> <<>>]
      ELSE [found |-> TRUE,
            html_content |-> SubstrFrom(full_warc_record, header_end + 4)]

\* -------------------------------------------------------- crawler helpers
HTTP_PREFIX == <<"h", "t", "t", "p", ":", "/", "/">>
HTTPS_PREFIX == <<"h", "t", "t", "p", "s", ":", "/", "/">>

is_valid_url(url) ==
  IF Len(url) < MIN_URL_LENGTH THEN FALSE
  ELSE IF HasPrefix(url, HTTP_PREFIX) THEN TRUE
  ELSE IF HasPrefix(url, HTTPS_PREFIX) THEN TRUE
  ELSE FALSE

SEED_URL ==
  <<"h", "t", "t", "p", "s", ":", "/", "/", "e", "n", ".",
    "w", "i", "k", "i", "p", "e", "d", "i", "a", ".", "o", "r", "g", "/",
    "w", "i", "k", "i", "/", "M", "a", "i", "n", "_", "P", "a", "g", "e">>

\* get_filename_from_path(WARC_FILENAME)
warc_db_filename == "crawled.warc.gz"

\* ------------------------------------------------------------- tokenizer
\* Mutant of ToLower: the character is taken as it is.
ToLowerNone(c) == c

IsAlnum(c) ==
  c \in {"0", "1", "2", "3", "4", "5", "6", "7", "8", "9",
         "C", "M", "P", "W",
         "a", "b", "c", "d", "e", "f", "g", "h", "i", "k", "m", "n", "o", "p",
         "r", "s", "t", "w"}

ToLower(c) ==
  CASE c = "C" -> "c"
    [] c = "M" -> "m"
    [] c = "P" -> "p"
    [] c = "W" -> "w"
    [] OTHER -> c

\* The loop of tokenize: `token` is the buffer, `tokens` the output so far.
RECURSIVE TokenizeLoop(_, _, _)
TokenizeLoop(text, token, tokens) ==
  IF text = <<>>
  THEN IF token # <<>> /\ Len(token) > 2 THEN Append(tokens, token) ELSE tokens
  ELSE LET c == text[1]
       IN  IF IsAlnum(c)
           THEN TokenizeLoop(Tail(text), Append(token, ToLower(c)), tokens)
           ELSE IF token # <<>>
           THEN TokenizeLoop(Tail(text), <<>>,
                             IF Len(token) > 2 THEN Append(tokens, token)
                             ELSE tokens)
           ELSE TokenizeLoop(Tail(text), token, tokens)

tokenize(text) == TokenizeLoop(text, <<>>, <<>>)

\* ------------------------------------------------------ HTML extraction
TextNode(t) == [type |-> "text", tag |-> "", text |-> t, children |-> <<>>]
ElementNode(tag, ch) ==
  [type |-> "element", tag |-> tag, text |-> <<>>, children |-> ch]

RECURSIVE clean_text(_)
RECURSIVE CleanChildren(_, _, _)
\* The for loop of clean_text over children[i..], 1-based.
CleanChildren(children, i, contents) ==
  IF i > Len(children) THEN contents
  ELSE LET text == clean_text(children[i])
           sep == IF i # 1 /\ text # <<>> THEN <<" ">> ELSE <<>>
       IN  CleanChildren(children, i + 1, contents \o sep \o text)

clean_text(node) ==
  IF node.type = "text" THEN node.text
  ELSE IF node.type = "element" /\ node.tag # "script" /\ node.tag # "style"
  THEN CleanChildren(node.children, 1, <<>>)
  ELSE <<>>

\* gumbo_parse of a payload without markup: the parser supplies html, head and
\* body, and the text becomes the one text node of body.
gumbo_parse(html_content) ==
  ElementNode("html",
    <<ElementNode("head", <<>>),
      ElementNode("body",
        IF html_content = <<>> THEN <<>> ELSE <<TextNode(html_content)>>)>>)

\* ------------------------------------------------------- inverted index
\* while (std::getline(ss, id, ',')): the pieces between commas; nothing is
\* read after a trailing comma.
RECURSIVE GetlineSplit(_)
GetlineSplit(s) ==
  IF s = <<>> THEN <<>>
  ELSE LET k == Find(s, <<",">>)
       IN  IF k = 0 THEN <<s>>
           ELSE <<SubSeq(s, 1, k - 1)>> \o GetlineSplit(SubstrFrom(s, k + 1))

SeqToSet(q) == { q[i] : i \in 1..Len(q) }

\* The re-encoding loop: the ids of the std::set in its order, "," between.
RECURSIVE JoinIds(_)
JoinIds(q) ==
  IF q = <<>> THEN <<>>
  ELSE IF Len(q) = 1 THEN q[1]
  ELSE q[1] \o <<",">> \o JoinIds(Tail(q))

\* Mutant of EncodePosting: the ids ordered by value (a std::set<int>).
RECURSIVE SortedByValue(_)
SortedByValue(S) ==
  IF S = {} THEN <<>>
  ELSE LET m == CHOOSE x \in S : \A y \in S : stoi(x) <= stoi(y)
       IN  <<m>> \o SortedByValue(S \ {m})

EncodePostingByValue(doc_ids) == JoinIds(SortedByValue(doc_ids))

\* main.cpp 250-254 over the std::set<std::string> doc_ids.
EncodePosting(doc_ids) == JoinIds(SetToSortedSeq(doc_ids))

\* db->Get: the stored value, "" when the key is absent or the read failed.
StoreGet(store, token, getOk) ==
  IF getOk /\ token \in DOMAIN store THEN store[token] ELSE <<>>

StorePut(store, token, value) ==
  [k \in DOMAIN store \cup {token} |-> IF k = token THEN value ELSE store[k]]

\* Mutant of MergeStep: the id is appended to the stored list as it is.
MergeStepAppend(store, token, doc_id, getOk, putOk) ==
  LET current_list == StoreGet(store, token, getOk)
      new_list == IF current_list = <<>> THEN to_string(doc_id)
                  ELSE current_list \o <<",">> \o to_string(doc_id)
  IN  IF putOk THEN StorePut(store, token, new_list) ELSE store

\* One pass of the body of `for (const auto& token : unique_tokens)`.
\* getOk, putOk: whether db->Get / db->Put succeed (their status is not used
\* beyond status.ok() of Get; the status of Put is dropped).
MergeStep(store, token, doc_id, getOk, putOk) ==
  LET current_list == StoreGet(store, token, getOk)
      doc_ids == IF current_list # <<>>
                 THEN SeqToSet(GetlineSplit(current_list)) ELSE {}
      doc_id_str == to_string(doc_id)
  IN  IF doc_id_str \notin doc_ids
      THEN IF putOk
           THEN StorePut(store, token, EncodePosting(doc_ids \cup {doc_id_str}))
           ELSE store
      ELSE store

\* ================================================================ state
VARIABLES
  crawl_queue,     \* Redis list crawl_queue: URLs
  indexing_queue,  \* Redis list indexing_queue: doc ids as decimal strings
  documents,       \* the documents table: documents[id] is the row of id
  warc_file,       \* the bytes of /shared_data/crawled.warc.gz
  index,           \* the RocksDB store: token -> posting list string
  c_pc,            \* per crawler process: where it is in main()
  c_url,           \* per crawler: url
  c_doc_id,        \* per crawler: doc_id
  c_html,          \* per crawler: html
  c_info,          \* per crawler: WarcRecordInfo of the write under way
  c_attempt,       \* per crawler: attempt of the push loop
  writer_good,     \* per crawler: file_stream.good() of its WarcWriter
  i_pc,            \* indexer: where it is in main()
  i_doc_id,        \* indexer: doc_id
  i_ntokens,       \* indexer: tokens.size()
  i_todo,          \* indexer: the part of unique_tokens still to merge
  trace,           \* history: per URL, the crawler operations done for it
  n_pushed,        \* history: URLs pushed by outside producers
  n_crashes,       \* history: crawler crashes
  seeded,          \* history: the seed went onto an empty queue, no pop since
  stopped,         \* history: rows whose crawler stopped before mark_crawled
  returned,        \* writer harness: what each write_record call returned
  payload,         \* writer harness: the indexer's payload of the last read
  merged,          \* merge harness: the (token, doc id) pairs merged, in order
  before,          \* merge harness: the store before the last merge
  arg,             \* function harnesses: the argument of the calls
  result,          \* function harnesses: what the calls returned, in order
  write_mutex      \* WarcWriter::write_mutex: the thread that holds it, or 0

queue_vars == <<crawl_queue, indexing_queue>>
crawler_vars ==
  <<c_pc, c_url, c_doc_id, c_html, c_info, c_attempt, writer_good>>
indexer_vars == <<i_pc, i_doc_id, i_ntokens, i_todo>>
history_vars == <<trace, n_pushed, n_crashes, seeded, stopped>>
harness_vars ==
  <<returned, payload, merged, before, arg, result, write_mutex>>
vars ==
  <<queue_vars, documents, warc_file, index, crawler_vars, indexer_vars,
    history_vars, harness_vars>>

\* ----------------------------------------------------------- the inputs
Workers == {1, 2}

U_A == <<"h", "t", "t", "p", ":", "/", "/", "a", ".", "b">>
\* Not http(s): dropped by is_valid_url.
U_FTP == <<"f", "t", "p", ":", "/", "/", "a", ".", "b", "c">>

\* What outside producers push onto crawl_queue.
PushUrls == {U_A, U_FTP}
Urls == PushUrls \cup {SEED_URL}

\* "cat Cat": the token cat twice.
B_CAT == <<"c", "a", "t", " ", "C", "a", "t">>
\* "dog cat": two distinct tokens.
B_DOG == <<"d", "o", "g", " ", "c", "a", "t">>
\* What a fetch may bring; "" is download_url's result on a CURL error.
Bodies == {B_CAT, B_DOG}

\* The page the web serves under a url (what curl_easy_perform reads when it
\* succeeds).
Page(url) == IF url = SEED_URL THEN B_DOG ELSE B_CAT

NoInfo == [offset |-> NULL, length |-> NULL]
EmptyStore == [k \in {} |-> <<>>]

NewRow(url) ==
  [url |-> url, status |-> "processing", file_path |-> NULL_PATH,
   offset |-> NULL, length |-> NULL, doc_length |-> NULL]

\* ------------------------------------------------------------------ Init
\* Empty queues, table, archive and index.
InitData ==
  /\ crawl_queue = <<>>
  /\ indexing_queue = <<>>
  /\ documents = <<>>
  /\ warc_file = <<>>
  /\ index = EmptyStore

\* The locals of the processes and the history, before anything has run.
InitLocals ==
  /\ c_url = [w \in Workers |-> <<>>]
  /\ c_doc_id = [w \in Workers |-> 0 - 1]
  /\ c_html = [w \in Workers |-> <<>>]
  /\ c_info = [w \in Workers |-> NoInfo]
  /\ c_attempt = [w \in Workers |-> 0]
  /\ i_doc_id = 0 - 1
  /\ i_ntokens = 0
  /\ i_todo = <<>>
  /\ trace = [u \in Urls |-> <<>>]
  /\ n_pushed = 0
  /\ n_crashes = 0
  /\ seeded = FALSE
  /\ stopped = {}
  /\ returned = <<>>
  /\ payload = <<>>
  /\ merged = <<>>
  /\ before = EmptyStore
  /\ arg = <<>>
  /\ result = <<>>
  /\ write_mutex = 0

InitShared == InitData /\ InitLocals

\* One crawler process and one indexer process (the deployment of the code).
Init ==
  /\ InitShared
  /\ c_pc = [w \in Workers |-> IF w = 1 THEN "boot" ELSE "off"]
  /\ writer_good = [w \in Workers |-> FALSE]
  /\ i_pc = "pop"

\* ------------------------------------------------------ outside producers
\* RPUSH crawl_queue by a producer other than the seeder.
EnqueueUrl(u) ==
  /\ n_pushed < MaxPushes
  /\ n_pushed' = n_pushed + 1
  /\ crawl_queue' = Append(crawl_queue, u)
  /\ UNCHANGED <<indexing_queue, documents, warc_file, index, crawler_vars,
                 indexer_vars, trace, n_crashes, seeded, stopped, harness_vars>>

\* ------------------------------------------------------------- crawler
\* Mutant of ToPop: the loop is left, the process ends after one iteration.
ToPopExit(w) ==
  /\ c_pc' = [c_pc EXCEPT ![w] = "off"]
  /\ c_url' = [c_url EXCEPT ![w] = <<>>]
  /\ c_doc_id' = [c_doc_id EXCEPT ![w] = 0 - 1]
  /\ c_html' = [c_html EXCEPT ![w] = <<>>]
  /\ c_info' = [c_info EXCEPT ![w] = NoInfo]
  /\ c_attempt' = [c_attempt EXCEPT ![w] = 0]

\* The locals of one loop iteration, as they are when the loop starts over.
ToPop(w) ==
  /\ c_pc' = [c_pc EXCEPT ![w] = "pop"]
  /\ c_url' = [c_url EXCEPT ![w] = <<>>]
  /\ c_doc_id' = [c_doc_id EXCEPT ![w] = 0 - 1]
  /\ c_html' = [c_html EXCEPT ![w] = <<>>]
  /\ c_info' = [c_info EXCEPT ![w] = NoInfo]
  /\ c_attempt' = [c_attempt EXCEPT ![w] = 0]

Log(url, op) == trace' = [trace EXCEPT ![url] = Append(@, op)]

\* How often x occurs in the sequence q.
RECURSIVE Count(_, _)
Count(q, x) ==
  IF q = <<>> THEN 0
  ELSE (IF q[1] = x THEN 1 ELSE 0) + Count(Tail(q), x)

\* Mutant of NeedsSeed: the seed is pushed at every start.
NeedsSeedAlways(llen) == TRUE

\* main.cpp 117: reply->integer == 0.
NeedsSeed(llen) == llen = 0

\* main.cpp 114-138, first command: LLEN crawl_queue.  A NULL reply ends the
\* process (it is started again).
SeedCheck(w) ==
  /\ c_pc[w] = "boot"
  /\ \E llenOk \in BOOLEAN :
       c_pc' = [c_pc EXCEPT ![w] =
                  IF ~llenOk THEN "boot"
                  ELSE IF NeedsSeed(Len(crawl_queue)) THEN "seed"
                  ELSE "open"]
  /\ UNCHANGED <<queue_vars, documents, warc_file, index, c_url, c_doc_id,
                 c_html, c_info, c_attempt, writer_good, indexer_vars,
                 history_vars, harness_vars>>

\* main.cpp 118-130: RPUSH crawl_queue SEED_URL; a failure ends the process.
SeedPush(w) ==
  /\ c_pc[w] = "seed"
  /\ \E pushOk \in BOOLEAN :
       /\ crawl_queue' = IF pushOk THEN Append(crawl_queue, SEED_URL)
                         ELSE crawl_queue
       /\ c_pc' = [c_pc EXCEPT ![w] = IF pushOk THEN "open" ELSE "boot"]
       /\ seeded' = IF pushOk THEN crawl_queue = <<>> ELSE seeded
  /\ UNCHANGED <<indexing_queue, documents, warc_file, index, c_url, c_doc_id,
                 c_html, c_info, c_attempt, writer_good, indexer_vars,
                 trace, n_pushed, n_crashes, stopped, harness_vars>>

\* main.cpp 141, warc_writer.cpp 12-17: open the archive for appending.  A
\* failure to open throws out of main: the process ends.
OpenWriter(w) ==
  /\ c_pc[w] = "open"
  /\ \E openOk \in BOOLEAN :
       /\ writer_good' = [writer_good EXCEPT ![w] = openOk]
       /\ c_pc' = [c_pc EXCEPT ![w] = IF openOk THEN "pop" ELSE "boot"]
  /\ UNCHANGED <<queue_vars, documents, warc_file, index, c_url, c_doc_id,
                 c_html, c_info, c_attempt, indexer_vars, history_vars,
                 harness_vars>>

\* main.cpp 146-165: LPOP crawl_queue and is_valid_url.  An empty queue or a
\* failed command sleeps and polls again (no change of state).
PopUrl(w) ==
  /\ c_pc[w] = "pop"
  /\ crawl_queue # <<>>
  /\ crawl_queue' = Tail(crawl_queue)
  /\ LET url == Head(crawl_queue)
     IN  IF is_valid_url(url)
         THEN /\ c_pc' = [c_pc EXCEPT ![w] = "reserve"]
              /\ c_url' = [c_url EXCEPT ![w] = url]
         ELSE UNCHANGED <<c_pc, c_url>>
  /\ seeded' = FALSE
  /\ UNCHANGED <<indexing_queue, documents, warc_file, index, c_doc_id,
                 c_html, c_info, c_attempt, writer_good, indexer_vars,
                 trace, n_pushed, n_crashes, stopped, harness_vars>>

\* Mutant of UrlPresent: a plain INSERT, no ON CONFLICT clause.
UrlPresentIgnored(docs, url) == FALSE

\* Mutant of UrlPresent: a row left at processing does not count, its url is
\* reserved and crawled again.
UrlPresentDone(docs, url) ==
  \E id \in 1..Len(docs) :
    docs[id].url = url /\ docs[id].status # "processing"

\* ON CONFLICT (url): a row with this url exists.
UrlPresent(docs, url) == \E id \in 1..Len(docs) : docs[id].url = url

\* main.cpp 167-188: INSERT ... ON CONFLICT (url) DO NOTHING RETURNING id.
\* An empty result (the url has a row) goes to the skip of lines 177-181; an
\* exception is logged and the loop starts over.
Reserve(w) ==
  /\ c_pc[w] = "reserve"
  /\ \E dbOk \in BOOLEAN :
       IF dbOk /\ ~UrlPresent(documents, c_url[w])
       THEN /\ documents' = Append(documents, NewRow(c_url[w]))
            /\ c_doc_id' = [c_doc_id EXCEPT ![w] = Len(documents) + 1]
            /\ c_pc' = [c_pc EXCEPT ![w] = "fetch"]
            /\ Log(c_url[w], "reserve")
            /\ UNCHANGED <<c_url, c_html, c_info, c_attempt>>
       ELSE IF dbOk
       THEN /\ c_pc' = [c_pc EXCEPT ![w] = "skip"]
            /\ UNCHANGED <<documents, trace, c_url, c_doc_id, c_html, c_info,
                           c_attempt>>
       ELSE /\ ToPop(w)
            /\ UNCHANGED <<documents, trace>>
  /\ UNCHANGED <<queue_vars, warc_file, index, writer_good, indexer_vars,
                 n_pushed, n_crashes, seeded, stopped, harness_vars>>

\* Mutant of SkipDuplicate: the duplicate is fetched all the same.
SkipDuplicateRefetch(w) ==
  /\ c_pc[w] = "skip"
  /\ c_pc' = [c_pc EXCEPT ![w] = "fetch"]
  /\ UNCHANGED <<queue_vars, documents, warc_file, index, c_url, c_doc_id,
                 c_html, c_info, c_attempt, writer_good, indexer_vars,
                 history_vars, harness_vars>>

\* main.cpp 177-181: "Skipping duplicate", commit of the empty transaction,
\* continue.
SkipDuplicate(w) ==
  /\ c_pc[w] = "skip"
  /\ ToPop(w)
  /\ UNCHANGED <<queue_vars, documents, warc_file, index, writer_good,
                 indexer_vars, history_vars, harness_vars>>

\* Mutant of HtmlEmpty: the result of download_url is not looked at.
HtmlEmptyUnchecked(html) == FALSE

\* if (html.empty())
HtmlEmpty(html) == html = <<>>

\* main.cpp 190-195, download_url: the page of the url, "" on a CURL error
\* (or when the page is empty).  The log tells a fetch that brought nothing.
Download(w) ==
  /\ c_pc[w] = "fetch"
  /\ \E html \in {Page(c_url[w]), <<>>} :
       /\ trace' = [trace EXCEPT ![c_url[w]] =
                      @ \o (IF html = <<>> THEN <<"fetch", "failed">>
                            ELSE <<"fetch">>)]
       /\ IF HtmlEmpty(html)
          THEN ToPop(w)
          ELSE /\ c_html' = [c_html EXCEPT ![w] = html]
               /\ c_pc' = [c_pc EXCEPT ![w] = "seek"]
               /\ UNCHANGED <<c_url, c_doc_id, c_info, c_attempt>>
  /\ UNCHANGED <<queue_vars, documents, warc_file, index, writer_good,
                 indexer_vars, n_pushed, n_crashes, seeded, stopped, harness_vars>>

\* The compressed record of write_record(url, content): warc_writer.cpp 28-30.
RecordBytes(url, content) == compress_string(full_record(url, content))

\* Mutant of Tellp: the position is taken without the seek to the end.
TellpNoSeek(file, good) == IF good THEN 0 ELSE 0 - 1

\* seekp(0, end); tellp(): the end of the file, -1 on a stream that has failed.
Tellp(file, good) == IF good THEN Len(file) ELSE 0 - 1

\* How many bytes of a record reach the file when the write or the flush
\* fails: none of them, all but the last, or all of them.
PartialLens(bytes) == {0, Len(bytes) - 1, Len(bytes)}

\* Mutant of StreamFailed: the stream state is not checked after the write.
StreamFailedUnchecked(good) == FALSE

\* if (!file_stream.good()) throw, after the write and after the flush.
StreamFailed(good) == ~good

\* Mutant of CatchWriteError: write_record has a try block of its own and
\* the iteration goes on with an empty WarcRecordInfo.
CatchWriteErrorInner(w) ==
  /\ c_pc' = [c_pc EXCEPT ![w] = "mark"]
  /\ c_info' = [c_info EXCEPT ![w] = [offset |-> 0, length |-> 0]]
  /\ UNCHANGED <<c_url, c_doc_id, c_html, c_attempt>>

\* main.cpp 246-248: the exception of write_record leaves the try block, past
\* the UPDATE and the push loop, and the iteration ends.
CatchWriteError(w) == ToPop(w)

\* warc_writer.cpp 25-33: build and compress the record, take the offset.
WriteSeek(w) ==
  /\ c_pc[w] = "seek"
  /\ c_info' = [c_info EXCEPT ![w] =
                  [offset |-> Tellp(warc_file, writer_good[w]),
                   length |-> NULL]]
  /\ c_pc' = [c_pc EXCEPT ![w] = "write"]
  /\ Log(c_url[w], "write_record")
  /\ UNCHANGED <<queue_vars, documents, warc_file, index, c_url, c_doc_id,
                 c_html, c_attempt, writer_good, indexer_vars, n_pushed,
                 n_crashes, seeded, stopped, harness_vars>>

\* warc_writer.cpp 35-48: append (the file is opened with ios::app), flush,
\* throw if the stream is not good, else return {offset, size}.  A stream
\* that has failed once writes nothing and stays failed.  The exception is
\* caught at main.cpp 246 (logged as "raised").
WriteFlush(w) ==
  /\ c_pc[w] = "write"
  /\ LET bytes == RecordBytes(c_url[w], c_html[w])
     IN  \E ioOk \in BOOLEAN, k \in PartialLens(bytes) :
           LET good == writer_good[w] /\ ioOk
               written == IF ~writer_good[w] THEN <<>>
                          ELSE IF ioOk THEN bytes
                          ELSE SubSeq(bytes, 1, k)
           IN  /\ warc_file' = warc_file \o written
               /\ writer_good' = [writer_good EXCEPT ![w] = good]
               /\ IF StreamFailed(good)
                  THEN /\ CatchWriteError(w)
                       /\ Log(c_url[w], "raised")
                  ELSE /\ c_info' = [c_info EXCEPT ![w].length = Len(bytes)]
                       /\ c_pc' = [c_pc EXCEPT ![w] = "mark"]
                       /\ UNCHANGED <<c_url, c_doc_id, c_html, c_attempt,
                                      trace>>
  /\ UNCHANGED <<queue_vars, documents, index, indexer_vars, n_pushed,
                 n_crashes, seeded, stopped, harness_vars>>

\* Mutant of SetCrawled: the UPDATE sets the status only.
SetCrawledStatusOnly(row, info) == [row EXCEPT !.status = "crawled"]

\* Mutant of SetCrawled: the end position of the record is stored as its
\* length.
SetCrawledEndAsLength(row, info) ==
  [row EXCEPT !.status = "crawled", !.file_path = warc_db_filename,
              !.offset = info.offset, !.length = info.offset + info.length]

\* UPDATE documents SET status = 'crawled', file_path, "offset", length.
SetCrawled(row, info) ==
  [row EXCEPT !.status = "crawled", !.file_path = warc_db_filename,
              !.offset = info.offset, !.length = info.length]

\* main.cpp 201-208: mark_crawled; an exception leaves the try block.
MarkCrawled(w) ==
  /\ c_pc[w] = "mark"
  /\ \E dbOk \in BOOLEAN :
       IF dbOk
       THEN /\ documents' = [documents EXCEPT ![c_doc_id[w]] =
                               SetCrawled(@, c_info[w])]
            /\ c_pc' = [c_pc EXCEPT ![w] = "push"]
            /\ c_attempt' = [c_attempt EXCEPT ![w] = 0]
            /\ Log(c_url[w], "mark_crawled")
            /\ UNCHANGED <<c_url, c_doc_id, c_html, c_info>>
       ELSE /\ ToPop(w)
            /\ UNCHANGED <<documents, trace>>
  /\ UNCHANGED <<queue_vars, warc_file, index, writer_good, indexer_vars,
                 n_pushed, n_crashes, seeded, stopped, harness_vars>>

\* Mutant of MoreAttempts: the loop gives up after the first failure.
MoreAttemptsNone(attempt) == FALSE

\* for (...; attempt < MAX_RETRIES; ++attempt), after `attempt` failures.
MoreAttempts(attempt) == attempt < MAX_RETRIES

\* Mutant of PushSucceeded: no break, the loop goes on to its next attempt.
PushSucceededRetry(w) ==
  IF MoreAttempts(c_attempt[w] + 1)
  THEN /\ c_attempt' = [c_attempt EXCEPT ![w] = @ + 1]
       /\ UNCHANGED <<c_pc, c_url, c_doc_id, c_html, c_info>>
  ELSE ToPop(w)

\* main.cpp 229-232: push_success = true; break.  The not-queued block is
\* skipped and the iteration ends.
PushSucceeded(w) == ToPop(w)

\* main.cpp 210-233: one attempt of RPUSH indexing_queue doc_id.  A failed
\* attempt (NULL reply or error reply) is taken to have pushed nothing: a
\* command that the server ran and whose reply was lost is not modelled.
PushIndexing(w) ==
  /\ c_pc[w] = "push"
  /\ c_attempt[w] < MAX_RETRIES
  /\ \E pushOk \in BOOLEAN :
       IF pushOk
       THEN /\ indexing_queue' = Append(indexing_queue, to_string(c_doc_id[w]))
            /\ Log(c_url[w], "push_tail")
            /\ PushSucceeded(w)
       ELSE /\ c_attempt' = [c_attempt EXCEPT ![w] = @ + 1]
            /\ c_pc' = [c_pc EXCEPT ![w] =
                          IF MoreAttempts(c_attempt[w] + 1) THEN "push"
                          ELSE "notq"]
            /\ UNCHANGED <<indexing_queue, trace, c_url, c_doc_id, c_html,
                           c_info>>
  /\ UNCHANGED <<crawl_queue, documents, warc_file, index, writer_good,
                 indexer_vars, n_pushed, n_crashes, seeded, stopped, harness_vars>>

\* Mutant of SetNotQueued: the row is put back for another attempt.
SetNotQueuedReset(row) == [row EXCEPT !.status = "processing"]

\* UPDATE documents SET status = 'crawled_not_queued' WHERE id = doc_id.
SetNotQueued(row) == [row EXCEPT !.status = "crawled_not_queued"]

\* main.cpp 234-244: mark_crawled_not_queued after the last failed attempt;
\* an exception is logged and dropped.
MarkNotQueued(w) ==
  /\ c_pc[w] = "notq"
  /\ \E dbOk \in BOOLEAN :
       documents' = IF dbOk
                    THEN [documents EXCEPT ![c_doc_id[w]] = SetNotQueued(@)]
                    ELSE documents
  /\ ToPop(w)
  /\ UNCHANGED <<queue_vars, warc_file, index, writer_good, indexer_vars,
                 history_vars, harness_vars>>

\* The crawler process stops at any point of main() and is started again.
\* Stopped inside write_record, any part of the record may have reached the
\* file.
Crash(w) ==
  /\ c_pc[w] \notin {"off", "boot"}
  /\ n_crashes < MaxCrashes
  /\ n_crashes' = n_crashes + 1
  /\ LET bytes == IF c_pc[w] = "write" /\ writer_good[w]
                  THEN RecordBytes(c_url[w], c_html[w])
                  ELSE <<>>
     IN  \E k \in PartialLens(bytes) \cap Nat :
           /\ warc_file' = warc_file \o SubSeq(bytes, 1, k)
           /\ stopped' =
                IF c_pc[w] = "mark"
                THEN stopped \cup
                       {[id |-> c_doc_id[w], url |-> c_url[w],
                         from |-> c_info[w].offset,
                         to |-> c_info[w].offset + c_info[w].length]}
                ELSE IF c_pc[w] \in {"fetch", "seek", "write"}
                THEN stopped \cup
                       {[id |-> c_doc_id[w], url |-> c_url[w],
                         from |-> Len(warc_file),
                         to |-> Len(warc_file) + k]}
                ELSE stopped
  /\ c_pc' = [c_pc EXCEPT ![w] = "boot"]
  /\ c_url' = [c_url EXCEPT ![w] = <<>>]
  /\ c_doc_id' = [c_doc_id EXCEPT ![w] = 0 - 1]
  /\ c_html' = [c_html EXCEPT ![w] = <<>>]
  /\ c_info' = [c_info EXCEPT ![w] = NoInfo]
  /\ c_attempt' = [c_attempt EXCEPT ![w] = 0]
  /\ writer_good' = [writer_good EXCEPT ![w] = FALSE]
  /\ UNCHANGED <<queue_vars, documents, index, indexer_vars, trace, n_pushed,
                 seeded, harness_vars>>

\* ------------------------------------------------------------- indexer
\* indexer main.cpp 202-215: seek to offset, read exactly length bytes; an
\* under-read is an error.
ReadRecord(file, offset, length) ==
  LET data == SubSeq(file, offset + 1, Min2(offset + length, Len(file)))
  IN  [ok |-> Len(data) = length, data |-> data]

\* indexer main.cpp 196-224 for one row: location, read, decompress, strip.
\* ok = FALSE when any of them fails (exception or continue).
LoadPayload(row, file) ==
  LET fail == [ok |-> FALSE, html_content |-> <<>>]
  IN  IF row.file_path = NULL_PATH \/ row.offset = NULL \/ row.length = NULL
      THEN fail
      ELSE LET rd == ReadRecord(file, row.offset, row.length)
               z == decompress_gzip(rd.data)
               h == StripHeader(z.out)
           IN  IF rd.ok /\ z.ok /\ h.found
               THEN [ok |-> TRUE, html_content |-> h.html_content]
               ELSE fail

\* indexer main.cpp 226-231: parse, extract the text, tokenize.
ExtractTokens(html_content) == tokenize(clean_text(gumbo_parse(html_content)))

ToIndexerPop ==
  /\ i_pc' = "pop"
  /\ i_doc_id' = 0 - 1
  /\ i_ntokens' = 0
  /\ i_todo' = <<>>

\* indexer main.cpp 170-191: BLPOP indexing_queue (blocks while it is empty),
\* std::stoi; an id that does not parse is dropped.
IndexerPop ==
  /\ i_pc = "pop"
  /\ indexing_queue # <<>>
  /\ indexing_queue' = Tail(indexing_queue)
  /\ LET doc_id == stoi(Head(indexing_queue))
     IN  IF doc_id = BadInt
         THEN UNCHANGED <<i_pc, i_doc_id>>
         ELSE /\ i_pc' = "load"
              /\ i_doc_id' = doc_id
  /\ UNCHANGED <<crawl_queue, documents, warc_file, index, crawler_vars,
                 i_ntokens, i_todo, history_vars, harness_vars>>

\* Mutant of TokensSize: the size of unique_tokens.
TokensSizeUnique(tokens) == Cardinality(SeqToSet(tokens))

\* indexer main.cpp 261: tokens.size() of the std::vector tokens.
TokensSize(tokens) == Len(tokens)

\* indexer main.cpp 193-232: read_location, read the record, decompress,
\* strip the header, extract and tokenize.  dbOk: the SELECT succeeds;
\* fileOk: the archive file can be opened.
IndexerLoad ==
  /\ i_pc = "load"
  /\ \E dbOk \in BOOLEAN, fileOk \in BOOLEAN :
       LET hasRow == i_doc_id \in 1..Len(documents)
           p == IF hasRow THEN LoadPayload(documents[i_doc_id], warc_file)
                ELSE [ok |-> FALSE, html_content |-> <<>>]
           tokens == ExtractTokens(p.html_content)
           unique_tokens == SetToSortedSeq(SeqToSet(tokens))
       IN  IF dbOk /\ fileOk /\ p.ok
           THEN /\ i_ntokens' = TokensSize(tokens)
                /\ i_todo' = unique_tokens
                /\ i_pc' = IF unique_tokens = <<>> THEN "setlen" ELSE "merge"
                /\ Log(documents[i_doc_id].url, "index")
                /\ UNCHANGED i_doc_id
           ELSE /\ ToIndexerPop
                /\ UNCHANGED trace
  /\ UNCHANGED <<queue_vars, documents, warc_file, index, crawler_vars,
                 n_pushed, n_crashes, seeded, stopped, harness_vars>>

\* indexer main.cpp 234-257: the merge of one token of unique_tokens.
IndexerMerge ==
  /\ i_pc = "merge"
  /\ \E getOk \in BOOLEAN, putOk \in BOOLEAN :
       index' = MergeStep(index, Head(i_todo), i_doc_id, getOk, putOk)
  /\ i_todo' = Tail(i_todo)
  /\ i_pc' = IF Tail(i_todo) = <<>> THEN "setlen" ELSE "merge"
  /\ UNCHANGED <<queue_vars, documents, warc_file, crawler_vars, i_doc_id,
                 i_ntokens, history_vars, harness_vars>>

\* Mutant of SetDocLength: the UPDATE also moves the row to a status of the
\* indexer.
SetDocLengthIndexed(row, size) ==
  [row EXCEPT !.doc_length = size, !.status = "indexed"]

\* UPDATE documents SET doc_length = $1 WHERE id = $2.
SetDocLength(row, size) == [row EXCEPT !.doc_length = size]

\* indexer main.cpp 259-268: UPDATE documents SET doc_length = tokens.size();
\* an exception is logged and the loop goes on.
IndexerSetDocLength ==
  /\ i_pc = "setlen"
  /\ \E dbOk \in BOOLEAN :
       documents' = IF dbOk
                    THEN [documents EXCEPT ![i_doc_id] =
                            SetDocLength(@, i_ntokens)]
                    ELSE documents
  /\ ToIndexerPop
  /\ UNCHANGED <<queue_vars, warc_file, index, crawler_vars, history_vars,
                 harness_vars>>

\* ------------------------------------------------------- specifications
\* The steps of the crawler processes and of the producers of crawl_queue.
NextCrawlers ==
  \/ \E u \in PushUrls : EnqueueUrl(u)
  \/ \E w \in Workers : SeedCheck(w)
  \/ \E w \in Workers : SeedPush(w)
  \/ \E w \in Workers : OpenWriter(w)
  \/ \E w \in Workers : PopUrl(w)
  \/ \E w \in Workers : Reserve(w)
  \/ \E w \in Workers : SkipDuplicate(w)
  \/ \E w \in Workers : Download(w)
  \/ \E w \in Workers : WriteSeek(w)
  \/ \E w \in Workers : WriteFlush(w)
  \/ \E w \in Workers : MarkCrawled(w)
  \/ \E w \in Workers : PushIndexing(w)
  \/ \E w \in Workers : MarkNotQueued(w)
  \/ \E w \in Workers : Crash(w)

\* The steps of the indexer process.
NextIndexer ==
  \/ IndexerPop
  \/ IndexerLoad
  \/ IndexerMerge
  \/ IndexerSetDocLength

Next == NextCrawlers \/ NextIndexer

\* One crawler, one indexer.
Spec == Init /\ [][Next]_vars

\* A run without failures: every command, fetch and write of a step succeeds
\* (the step takes the branch of its success), and no process is stopped.
CrawlerNoFault(w) ==
  /\ c_pc[w] = "boot" => c_pc'[w] # "boot"
  /\ c_pc[w] = "seed" => c_pc'[w] = "open"
  /\ c_pc[w] = "open" => c_pc'[w] = "pop"
  /\ c_pc[w] = "reserve" => c_pc'[w] \in {"fetch", "skip"}
  /\ c_pc[w] = "fetch" => c_pc'[w] = "seek"
  /\ c_pc[w] = "write" => c_pc'[w] = "mark"
  /\ c_pc[w] = "mark" => c_pc'[w] = "push"
  /\ c_pc[w] = "push" => c_attempt'[w] = 0

IndexerNoFault ==
  /\ i_pc = "load" => i_pc' # "pop"
  /\ i_pc = "merge"
       => index' = MergeStep(index, Head(i_todo), i_doc_id, TRUE, TRUE)
  /\ i_pc = "setlen" => documents'[i_doc_id].doc_length = i_ntokens

\* The loop of the crawler process, main.cpp 114-251, without failures.
CrawlerLive ==
  \E w \in Workers :
    /\ \/ SeedCheck(w)
       \/ SeedPush(w)
       \/ OpenWriter(w)
       \/ PopUrl(w)
       \/ Reserve(w)
       \/ SkipDuplicate(w)
       \/ Download(w)
       \/ WriteSeek(w)
       \/ WriteFlush(w)
       \/ MarkCrawled(w)
       \/ PushIndexing(w)
    /\ CrawlerNoFault(w)

\* The loop of the indexer process, indexer main.cpp 168-269, without
\* failures.
IndexerLive == NextIndexer /\ IndexerNoFault

NextLive ==
  \/ \E u \in Urls : EnqueueUrl(u)
  \/ CrawlerLive
  \/ IndexerLive

\* One crawler, one indexer, no failures; each of the two processes keeps
\* running its loop (the producers of crawl_queue need not go on).  A step
\* of the indexer in such a run is a step of IndexerLive.
SpecLive ==
  /\ Init
  /\ [][NextLive]_vars
  /\ WF_vars(CrawlerLive)
  /\ WF_vars(NextIndexer)

\* Two crawler processes on the same queues, table and archive; the indexer
\* is not started (no crawler step reads what the indexer writes).
InitWorkers ==
  /\ InitShared
  /\ c_pc = [w \in Workers |-> "boot"]
  /\ writer_good = [w \in Workers |-> FALSE]
  /\ i_pc = "off"

SpecWorkers == InitWorkers /\ [][NextCrawlers]_vars

\* ------------------------------------------------------- writer harness
\* test_warc_writer.cpp, test_write_record: one WarcWriter on a fresh file
\* and write_record calls through it; then the indexer's read of a returned
\* byte range.  The calls run the crawler's write steps of writer 1.
B_CRLF == <<"a", CR, LF, CR, LF, "b">>
WarcBodies == Bodies \cup {B_CRLF}
WarcUrls == {U_A, SEED_URL}

InitWarc ==
  /\ InitShared
  /\ c_pc = [w \in Workers |-> IF w = 1 THEN "pop" ELSE "off"]
  /\ writer_good = [w \in Workers |-> w = 1]
  /\ i_pc = "off"

\* The write_record calls made so far (each is logged by WriteSeek).
WriteCalls ==
  Count(trace[U_A], "write_record") + Count(trace[SEED_URL], "write_record")

\* writer.write_record(url, content) is called.
HarnessCall(url, content) ==
  /\ c_pc[1] = "pop"
  /\ WriteCalls < MaxRecords
  /\ c_url' = [c_url EXCEPT ![1] = url]
  /\ c_html' = [c_html EXCEPT ![1] = content]
  /\ c_pc' = [c_pc EXCEPT ![1] = "seek"]
  /\ UNCHANGED <<queue_vars, documents, warc_file, index, c_doc_id, c_info,
                 c_attempt, writer_good, indexer_vars, history_vars,
                 harness_vars>>

\* The call returns info; the file size is taken (std::filesystem::file_size).
HarnessReturn ==
  /\ c_pc[1] = "mark"
  /\ returned' = Append(returned,
                   [offset |-> c_info[1].offset, length |-> c_info[1].length,
                    url |-> c_url[1], content |-> c_html[1],
                    file_size |-> Len(warc_file)])
  /\ ToPop(1)
  /\ UNCHANGED <<queue_vars, documents, warc_file, index, writer_good,
                 indexer_vars, history_vars, payload, merged, before, arg,
                 result, write_mutex>>

\* indexer main.cpp 202-224 on the byte range of the k-th returned record.
HarnessRead(k) ==
  /\ c_pc[1] = "pop"
  /\ k \in 1..Len(returned)
  /\ LET p == LoadPayload([file_path |-> warc_db_filename,
                           offset |-> returned[k].offset,
                           length |-> returned[k].length], warc_file)
     IN  payload' = <<[k |-> k, ok |-> p.ok, html_content |-> p.html_content]>>
  /\ UNCHANGED <<queue_vars, documents, warc_file, index, crawler_vars,
                 indexer_vars, history_vars, returned, merged, before, arg,
                 result, write_mutex>>

NextWarc ==
  \/ \E url \in WarcUrls, content \in WarcBodies : HarnessCall(url, content)
  \/ WriteSeek(1)
  \/ WriteFlush(1)
  \/ HarnessReturn
  \/ \E k \in 1..MaxRecords : HarnessRead(k)

SpecWarc == InitWarc /\ [][NextWarc]_vars

\* ------------------------------------------------------- thread harness
\* Threads of one process calling write_record on the same WarcWriter (its
\* stream state is writer_good[1]).  The bytes of a record reach the file in
\* two parts, so that appends of threads that are not kept apart interleave.
\* Mutant of MutexFree: write_record takes no lock.
MutexFreeAlways(holder) == TRUE

\* std::lock_guard<std::mutex> lock(write_mutex) goes on when no thread holds
\* the mutex.
MutexFree(holder) == holder = 0

InitThreads ==
  /\ InitShared
  /\ c_pc = [w \in Workers |-> "t_idle"]
  /\ writer_good = [w \in Workers |-> TRUE]
  /\ i_pc = "off"

\* A thread calls writer.write_record(url, content).
ThreadCall(t, url, content) ==
  /\ c_pc[t] = "t_idle"
  /\ WriteCalls < MaxRecords
  /\ c_url' = [c_url EXCEPT ![t] = url]
  /\ c_html' = [c_html EXCEPT ![t] = content]
  /\ c_pc' = [c_pc EXCEPT ![t] = "t_call"]
  /\ Log(url, "write_record")
  /\ UNCHANGED <<queue_vars, documents, warc_file, index, c_doc_id, c_info,
                 c_attempt, writer_good, indexer_vars, n_pushed, n_crashes, seeded, stopped,
                 harness_vars>>

\* warc_writer.cpp 26-30: the lock is taken, the record built and compressed.
ThreadLock(t) ==
  /\ c_pc[t] = "t_call"
  /\ MutexFree(write_mutex)
  /\ write_mutex' = t
  /\ c_pc' = [c_pc EXCEPT ![t] = "t_locked"]
  /\ UNCHANGED <<queue_vars, documents, warc_file, index, c_url, c_doc_id,
                 c_html, c_info, c_attempt, writer_good, indexer_vars,
                 history_vars, returned, payload, merged, before, arg,
                 result>>

\* warc_writer.cpp 32-33: seekp(0, end); offset = tellp().
ThreadSeek(t) ==
  /\ c_pc[t] = "t_locked"
  /\ c_info' = [c_info EXCEPT ![t] =
                  [offset |-> Tellp(warc_file, writer_good[1]),
                   length |-> NULL]]
  /\ c_pc' = [c_pc EXCEPT ![t] = "t_sought"]
  /\ UNCHANGED <<queue_vars, documents, warc_file, index, c_url, c_doc_id,
                 c_html, c_attempt, writer_good, indexer_vars, history_vars,
                 harness_vars>>

\* warc_writer.cpp 35: the first half of the record reaches the file.
ThreadWriteHalf(t) ==
  /\ c_pc[t] = "t_sought"
  /\ LET bytes == RecordBytes(c_url[t], c_html[t])
     IN  warc_file' = warc_file \o (IF writer_good[1]
                                    THEN SubSeq(bytes, 1, Len(bytes) \div 2)
                                    ELSE <<>>)
  /\ c_pc' = [c_pc EXCEPT ![t] = "t_half"]
  /\ UNCHANGED <<queue_vars, documents, index, c_url, c_doc_id, c_html,
                 c_info, c_attempt, writer_good, indexer_vars, history_vars,
                 harness_vars>>

\* warc_writer.cpp 35-49: the rest of the record, the flush, the checks of
\* the stream; the call returns {offset, size} or throws, and the lock_guard
\* releases the mutex either way.
ThreadWriteRest(t) ==
  /\ c_pc[t] = "t_half"
  /\ LET bytes == RecordBytes(c_url[t], c_html[t])
     IN  \E ioOk \in BOOLEAN :
           LET good == writer_good[1] /\ ioOk
           IN  /\ warc_file' = warc_file \o
                                 (IF good
                                  THEN SubstrFrom(bytes, Len(bytes) \div 2 + 1)
                                  ELSE <<>>)
               /\ writer_good' = [writer_good EXCEPT ![1] = good]
               /\ IF StreamFailed(good)
                  THEN /\ Log(c_url[t], "raised")
                       /\ UNCHANGED returned
                  ELSE /\ returned' = Append(returned,
                                        [offset |-> c_info[t].offset,
                                         length |-> Len(bytes),
                                         url |-> c_url[t],
                                         content |-> c_html[t],
                                         thread |-> t])
                       /\ UNCHANGED trace
  /\ write_mutex' = IF write_mutex = t THEN 0 ELSE write_mutex
  /\ c_pc' = [c_pc EXCEPT ![t] = "t_idle"]
  /\ c_url' = [c_url EXCEPT ![t] = <<>>]
  /\ c_html' = [c_html EXCEPT ![t] = <<>>]
  /\ c_info' = [c_info EXCEPT ![t] = NoInfo]
  /\ UNCHANGED <<queue_vars, documents, index, c_doc_id, c_attempt,
                 indexer_vars, n_pushed, n_crashes, seeded, stopped, payload, merged, before,
                 arg, result>>

NextThreads ==
  \/ \E t \in Workers, url \in WarcUrls, content \in WarcBodies :
       ThreadCall(t, url, content)
  \/ \E t \in Workers : ThreadLock(t)
  \/ \E t \in Workers : ThreadSeek(t)
  \/ \E t \in Workers : ThreadWriteHalf(t)
  \/ \E t \in Workers : ThreadWriteRest(t)

SpecThreads == InitThreads /\ [][NextThreads]_vars

\* -------------------------------------------------------- merge harness
\* The merge step of the indexer on its own: any (token, doc id), from the
\* empty store.
T_CAT == <<"c", "a", "t">>
T_DOG == <<"d", "o", "g">>
MergeTokens == {T_CAT, T_DOG}
MergeDocIds == {3, 7, 10}

InitMerge ==
  /\ InitShared
  /\ c_pc = [w \in Workers |-> "off"]
  /\ writer_good = [w \in Workers |-> FALSE]
  /\ i_pc = "off"

HarnessMerge(token, doc_id) ==
  /\ Len(merged) < MaxMerges
  /\ \E getOk \in BOOLEAN, putOk \in BOOLEAN :
       /\ index' = MergeStep(index, token, doc_id, getOk, putOk)
       /\ merged' = Append(merged, [token |-> token, doc_id |-> doc_id,
                                    ok |-> getOk /\ putOk])
  /\ before' = index
  /\ UNCHANGED <<queue_vars, documents, warc_file, crawler_vars, indexer_vars,
                 history_vars, returned, payload, arg, result, write_mutex>>

NextMerge == \E token \in MergeTokens, doc_id \in MergeDocIds :
               HarnessMerge(token, doc_id)

SpecMerge == InitMerge /\ [][NextMerge]_vars

\* ------------------------------------------------------ indexer harness
\* The indexer loop on its own, on a table and an archive that were damaged
\* after the crawler wrote them: every id of JobIds is on indexing_queue once,
\* in any order.
U_C == <<"h", "t", "t", "p", ":", "/", "/", "c", ".", "d">>
U_E == <<"h", "t", "t", "p", ":", "/", "/", "e", ".", "f">>

\* The row of id 1 points to a whole record.
REC_GOOD == RecordBytes(U_A, B_CAT)
\* The record of id 2 lost its trailer byte to bit rot: inflate fails.
REC_ROT ==
  SubSeq(RecordBytes(SEED_URL, B_DOG), 1,
         Len(RecordBytes(SEED_URL, B_DOG)) - 1) \o <<"<rot>">>
\* The range of id 3 is a gzip member that holds no CRLF CRLF.
REC_FOREIGN == compress_string(<<"W", "A", "R", "C">>)
\* The record of id 4 is the last of the file and was cut short.
REC_CUT ==
  SubSeq(RecordBytes(U_E, B_DOG), 1, Len(RecordBytes(U_E, B_DOG)) - 1)

DamagedArchive == REC_GOOD \o REC_ROT \o REC_FOREIGN \o REC_CUT

CrawledRow(url, offset, length) ==
  [url |-> url, status |-> "crawled", file_path |-> warc_db_filename,
   offset |-> offset, length |-> length, doc_length |-> NULL]

DamagedTable ==
  <<CrawledRow(U_A, 0, Len(REC_GOOD)),
    CrawledRow(SEED_URL, Len(REC_GOOD), Len(REC_ROT)),
    CrawledRow(U_C, Len(REC_GOOD) + Len(REC_ROT), Len(REC_FOREIGN)),
    CrawledRow(U_E, Len(REC_GOOD) + Len(REC_ROT) + Len(REC_FOREIGN),
               Len(REC_CUT) + 1)>>

\* The ids of the four rows and 5, the id of no row.
JobIds == 1..5
\* The ids whose document cannot be read: 2, 3, 4 damaged, 5 without a row.
FailingIds == {2, 3, 4, 5}

\* The orders in which the ids can lie on indexing_queue.
JobOrders ==
  { q \in [JobIds -> JobIds] : \A i \in JobIds, j \in JobIds :
                                 q[i] = q[j] => i = j }

InitIndexer ==
  /\ InitLocals
  /\ crawl_queue = <<>>
  /\ \E q \in JobOrders :
       indexing_queue = [i \in JobIds |-> to_string(q[i])]
  /\ documents = DamagedTable
  /\ warc_file = DamagedArchive
  /\ index = EmptyStore
  /\ c_pc = [w \in Workers |-> "off"]
  /\ writer_good = [w \in Workers |-> FALSE]
  /\ i_pc = "pop"

SpecIndexer == InitIndexer /\ [][NextIndexer]_vars

\* ---------------------------------------------------- tokenizer harness
\* tokenize on its own: every text of up to MaxTextLen characters over a
\* lower-case letter, an upper-case letter, a digit and a separator; each text
\* is passed twice.
TokChars == {"a", "C", "1", "-"}
Texts == UNION { [1..n -> TokChars] : n \in 0..MaxTextLen }

InitOff ==
  /\ InitShared
  /\ c_pc = [w \in Workers |-> "off"]
  /\ writer_good = [w \in Workers |-> FALSE]
  /\ i_pc = "off"

\* std::vector<std::string> tokens = tokenize(text);
TokenizeCall(text) ==
  /\ Len(result) < 2
  /\ result = <<>> \/ text = arg
  /\ arg' = text
  /\ result' = Append(result, tokenize(text))
  /\ UNCHANGED <<queue_vars, documents, warc_file, index, crawler_vars,
                 indexer_vars, history_vars, returned, payload, merged,
                 before, write_mutex>>

\* The first call takes any text, the second the same text again.
NextTok ==
  \E text \in (IF result = <<>> THEN Texts ELSE {arg}) : TokenizeCall(text)

SpecTok == InitOff /\ [][NextTok]_vars

\* -------------------------------------------------- configuration harness
\* The environment of the indexer: each variable is unset or set to a string.
\* std::getenv returns a null pointer for the first and the value, which may
\* be empty, for the second.
UNSET == <<"<unset>">>

EnvVars == {"DB_CONN_STR", "DB_NAME", "DB_USER", "DB_PASS", "DB_HOST", "DB_PORT"}

EnvValues(var) ==
  CASE var = "DB_CONN_STR" -> {UNSET, <<>>, <<"dbname=x">>}
    [] var = "DB_PASS" -> {UNSET, <<>>, <<"s", "3">>}
    [] OTHER -> {UNSET, <<"v">>}

Envs == { e \in [EnvVars -> UNION { EnvValues(v) : v \in EnvVars }] :
            \A v \in EnvVars : e[v] \in EnvValues(v) }

get_env_or_default(env, var, def) == IF env[var] # UNSET THEN env[var] ELSE def

ConnStr(db_name, db_user, db_pass, db_host, db_port) ==
  <<"dbname=">> \o db_name \o <<" user=">> \o db_user \o <<" password=">>
  \o db_pass \o <<" host=">> \o db_host \o <<" port=">> \o db_port

\* indexer main.cpp 28-40, the function the indexer process calls at 42.
build_db_conn_str(env) ==
  IF env["DB_CONN_STR"] # UNSET
  THEN [ok |-> TRUE, str |-> env["DB_CONN_STR"]]
  ELSE [ok |-> TRUE,
        str |-> ConnStr(get_env_or_default(env, "DB_NAME", <<"search_engine">>),
                        get_env_or_default(env, "DB_USER", <<"admin">>),
                        get_env_or_default(env, "DB_PASS", <<"password123">>),
                        get_env_or_default(env, "DB_HOST", <<"postgres_service">>),
                        get_env_or_default(env, "DB_PORT", <<"5432">>))]

\* utils.cpp 17-35, indexer::build_db_conn_str: throws without DB_PASS.
utils_build_db_conn_str(env) ==
  IF env["DB_CONN_STR"] # UNSET
  THEN [ok |-> TRUE, str |-> env["DB_CONN_STR"]]
  ELSE IF env["DB_PASS"] = UNSET
  THEN [ok |-> FALSE, str |-> <<>>]
  ELSE [ok |-> TRUE,
        str |-> ConnStr(get_env_or_default(env, "DB_NAME", <<"search_engine">>),
                        get_env_or_default(env, "DB_USER", <<"admin">>),
                        env["DB_PASS"],
                        get_env_or_default(env, "DB_HOST", <<"postgres_service">>),
                        get_env_or_default(env, "DB_PORT", <<"5432">>))]

\* The indexer process starts in the environment env: the initializer of
\* DB_CONN_STR (main.cpp 42) runs before main; an exception there ends the
\* process, otherwise main connects with the string and enters its loop.
IndexerStart(env) ==
  /\ result = <<>>
  /\ arg' = env
  /\ LET r == build_db_conn_str(env)
     IN  result' = <<[by |-> "main", started |-> r.ok, conn |-> r.str]>>
  /\ UNCHANGED <<queue_vars, documents, warc_file, index, crawler_vars,
                 indexer_vars, history_vars, returned, payload, merged,
                 before, write_mutex>>

\* A caller of the library function indexer::build_db_conn_str.
UtilsBuild(env) ==
  /\ result = <<>>
  /\ arg' = env
  /\ LET r == utils_build_db_conn_str(env)
     IN  result' = <<[by |-> "utils", started |-> r.ok, conn |-> r.str]>>
  /\ UNCHANGED <<queue_vars, documents, warc_file, index, crawler_vars,
                 indexer_vars, history_vars, returned, payload, merged,
                 before, write_mutex>>

NextEnv ==
  \/ \E env \in Envs : IndexerStart(env)
  \/ \E env \in Envs : UtilsBuild(env)

SpecEnv == InitOff /\ [][NextEnv]_vars

\* ------------------------------------------------- extraction harness
\* The trees clean_text is called on: a root element over text nodes,
\* comments, script elements and p elements over those.
CommentNode(t) == [type |-> "comment", tag |-> "", text |-> t, children |-> <<>>]

Forests(nodes) == UNION { [1..n -> nodes] : n \in 0..MaxChildren }

DomLeaves ==
  {TextNode(<<"a">>), CommentNode(<<"a">>),
   ElementNode("script", <<TextNode(<<"a">>)>>)}

DomInner == { ElementNode("p", ch) : ch \in Forests(DomLeaves) }

DomRoots ==
  { ElementNode(tag, ch) :
      tag \in {"div", "style"}, ch \in Forests(DomLeaves \cup DomInner) }

\* std::string plain_text = clean_text(output->root);
CleanTextCall(node) ==
  /\ result = <<>>
  /\ arg' = node
  /\ result' = <<clean_text(node)>>
  /\ UNCHANGED <<queue_vars, documents, warc_file, index, crawler_vars,
                 indexer_vars, history_vars, returned, payload, merged,
                 before, write_mutex>>

\* One call, on any of the trees.
NextDom ==
  \E node \in (IF result = <<>> THEN DomRoots ELSE {}) : CleanTextCall(node)

SpecDom == InitOff /\ [][NextDom]_vars

\* ================================================================ claims
\* ---------------------------------------------------------------- C4
\* C4: the records returned by one writer on a fresh archive start at offset
\* 0, have positive lengths, follow each other without a gap (so the offsets
\* increase strictly), and the file size after each write is offset + length.
C4_OffsetsContiguous ==
  returned # <<>> =>
    /\ returned[1].offset = 0
    /\ \A k \in 1..Len(returned) :
         /\ returned[k].length > 0
         /\ returned[k].file_size = returned[k].offset + returned[k].length
    /\ \A k \in 1..(Len(returned) - 1) :
         /\ returned[k + 1].offset = returned[k].offset + returned[k].length
         /\ returned[k].offset < returned[k + 1].offset

\* Two records have been returned by the writer.
C4_Witness == Len(returned) >= 2

\* ---------------------------------------------------------------- C5
\* C5: what the indexer takes as payload from the byte range of a record
\* written by write_record(url, body) is exactly body.
C5_RoundTripExact ==
  payload # <<>> =>
    /\ payload[1].ok
    /\ payload[1].html_content = returned[payload[1].k].content

\* ---------------------------------------------------------------- C6
MergedPair(i) == <<merged[i].token, merged[i].doc_id>>

\* The last two merge steps were for the same (token, doc id) and their store
\* operations succeeded.
MergedTwice ==
  /\ Len(merged) >= 2
  /\ MergedPair(Len(merged)) = MergedPair(Len(merged) - 1)
  /\ merged[Len(merged)].ok
  /\ merged[Len(merged) - 1].ok

\* (cat,7), (cat,3), (cat,7) from the empty store, the store operations
\* succeeding.
CatScenario ==
  /\ Len(merged) = 3
  /\ MergedPair(1) = <<T_CAT, 7>>
  /\ MergedPair(2) = <<T_CAT, 3>>
  /\ MergedPair(3) = <<T_CAT, 7>>
  /\ \A i \in 1..3 : merged[i].ok

IsDecimal(x) ==
  /\ x # <<>>
  /\ \A i \in 1..Len(x) : IsDigit(x[i])
  /\ to_string(stoi(x)) = x

\* C7: every stored value is decimal doc ids joined by single commas, in
\* strictly ascending lexicographic order (so no id is there twice).
C7_PostingCanonical ==
  \A t \in DOMAIN index :
    LET ids == GetlineSplit(index[t])
    IN  /\ ids # <<>>
        /\ JoinIds(ids) = index[t]
        /\ \A i \in 1..Len(ids) : IsDecimal(ids[i])
        /\ \A i \in 1..(Len(ids) - 1) : StrLess(ids[i], ids[i + 1])

\* A posting list of three ids whose lexicographic order is not the numeric.
C7_Witness ==
  /\ T_CAT \in DOMAIN index
  /\ index[T_CAT] = <<"1", "0", ",", "3", ",", "7">>

\* ---------------------------------------------------------------- C1
Ids == 1..Len(documents)

\* The byte range of the row is one whole gzip member, a record as
\* write_record builds it, and its WARC-Target-URI is the row's url.
PointsToRecord(row) ==
  /\ row.file_path = warc_db_filename
  /\ row.offset # NULL
  /\ row.length # NULL
  /\ LET rd == ReadRecord(warc_file, row.offset, row.length)
         z == decompress_gzip(rd.data)
     IN  /\ rd.ok
         /\ z.ok
         /\ z.used = row.length
         /\ TargetUri(z.out) = row.url
         /\ \E body \in Bodies : rd.data = RecordBytes(row.url, body)

\* C1: every row at status crawled points to exactly one complete record of
\* its own url, whatever iterations, failures and crashes came before.
C1_CrawledPointsToRecord ==
  \A id \in Ids : documents[id].status = "crawled" => PointsToRecord(documents[id])

\* A crawled row whose record lies behind bytes left by a crashed or failed
\* write.
C1_Witness ==
  /\ n_crashes >= 1
  /\ \E id \in Ids :
       /\ documents[id].status = "crawled"
       /\ documents[id].offset > 0
       /\ \A other \in Ids : documents[other].offset # 0

\* ---------------------------------------------------------------- C2
UrlUnique ==
  \A i \in Ids, j \in Ids : documents[i].url = documents[j].url => i = j

\* A step keeps every row under its id with its url.
IdStable ==
  /\ Len(documents') >= Len(documents)
  /\ \A id \in Ids : documents'[id].url = documents[id].url

\* A reserve of a url that has a row inserts nothing and yields no id.
ReserveOfPresent ==
  \A w \in Workers :
    (/\ c_pc[w] = "reserve"
     /\ UrlPresent(documents, c_url[w])
     /\ c_pc'[w] # "reserve")
    => /\ documents' = documents
       /\ c_doc_id'[w] = 0 - 1

\* C2: at most one row per url in every state, ids are never reassigned, and
\* reserve of a present url inserts nothing and returns no id.
C2_UrlUniqueIdStable ==
  [][UrlUnique' /\ IdStable /\ ReserveOfPresent]_vars

\* After a crash and restart a crawler is about to reserve a url that already
\* has a row.
C2_Witness ==
  \E w \in Workers :
    /\ c_pc[w] = "reserve"
    /\ UrlPresent(documents, c_url[w])
    /\ n_crashes >= 1

\* ---------------------------------------------------------------- C3
\* C3: with two crawlers popping the same queue and crashing, a url is fetched
\* at most once and write_record is called for it at most once.
C3_SingleProcessing ==
  \A u \in Urls :
    /\ Count(trace[u], "fetch") <= 1
    /\ Count(trace[u], "write_record") <= 1

\* Both crawlers hold the same url: one is past its fetch, the other is about
\* to reserve.
C3_Witness ==
  \E w1 \in Workers, w2 \in Workers :
    /\ w1 # w2
    /\ c_url[w1] = c_url[w2]
    /\ c_pc[w1] = "reserve"
    /\ c_pc[w2] \in {"seek", "write", "mark", "push"}

\* ---------------------------------------------------------------- C8
IsPrefix(p, q) == Len(p) <= Len(q) /\ SubSeq(q, 1, Len(p)) = p

\* The four stages of a url, among the entries of the log.
IsStage(op) == op \in {"reserve", "write_record", "mark_crawled", "push_tail"}

\* The doc ids on indexing_queue or in the hands of the indexer.
QueuedIds ==
  { stoi(indexing_queue[i]) : i \in 1..Len(indexing_queue) }
  \cup (IF i_pc \in {"load", "merge", "setlen"} THEN {i_doc_id} ELSE {})

\* C8: per url the crawler does reserve, write_record, mark_crawled, push in
\* that order, and an id on indexing_queue or popped by the indexer is the id
\* of a row at status crawled with its location set.
C8_OrderAndHandshake ==
  /\ \A u \in Urls :
       IsPrefix(SelectSeq(trace[u], IsStage),
                <<"reserve", "write_record", "mark_crawled", "push_tail">>)
  /\ \A id \in QueuedIds :
       /\ id \in Ids
       /\ documents[id].status = "crawled"
       /\ documents[id].file_path # NULL_PATH
       /\ documents[id].offset # NULL
       /\ documents[id].length # NULL

\* One id is with the indexer while another waits on the queue.
C8_Witness ==
  /\ i_pc = "load"
  /\ indexing_queue # <<>>
  /\ stoi(Head(indexing_queue)) # i_doc_id

\* ---------------------------------------------------------------- C9
StatusStep(a, b) ==
  \/ a = b
  \/ a = "processing" /\ b = "crawled"
  \/ a = "crawled" /\ b = "crawled_not_queued"

\* C9: in every step the status of every row stays or moves processing ->
\* crawled or crawled -> crawled_not_queued.
C9_StatusForward ==
  [][\A id \in Ids : StatusStep(documents[id].status, documents'[id].status)]_vars

\* A row has reached crawled_not_queued.
C9_Witness == \E id \in Ids : documents[id].status = "crawled_not_queued"

\* --------------------------------------------------------------- C10
\* The distinct tokens of the text extracted from the row's record.
DocTokens(row) ==
  SeqToSet(ExtractTokens(LoadPayload(row, warc_file).html_content))

Posted(id, t) ==
  /\ t \in DOMAIN index
  /\ to_string(id) \in SeqToSet(GetlineSplit(index[t]))

\* C10: a row with doc_length set has its id in the posting list of every
\* distinct token of its text.
C10_DocLengthAfterMerge ==
  \A id \in Ids :
    documents[id].doc_length # NULL =>
      \A t \in DocTokens(documents[id]) : Posted(id, t)

\* --------------------------------------------------------------- C11
\* The url has a row, at whatever status.
HasRow(url) == \E id \in Ids : documents[id].url = url

\* The crawler holds a url that has a row: at the INSERT, or past its empty
\* result.
AtDuplicate(w) ==
  \/ c_pc[w] = "reserve" /\ HasRow(c_url[w])
  \/ c_pc[w] = "skip"

\* C11: the steps of an iteration whose popped url already has a row (the
\* INSERT that returns nothing, the skip) change no row, append nothing to
\* the archive, push nothing onto indexing_queue, do no fetch and no
\* write_record, and lead back to the pop (or to a restart).
C11_DuplicateChangesNothing ==
  [][\A w \in Workers :
       (AtDuplicate(w) /\ c_pc'[w] # c_pc[w]) =>
         /\ documents' = documents
         /\ warc_file' = warc_file
         /\ indexing_queue' = indexing_queue
         /\ trace' = trace
         /\ c_pc'[w] \in {"skip", "pop", "boot"}]_vars

\* The INSERT for a url whose row is at status crawled has returned nothing.
C11_Witness ==
  \E w \in Workers, id \in Ids :
    /\ c_pc[w] = "skip"
    /\ documents[id].url = c_url[w]
    /\ documents[id].status = "crawled"

\* --------------------------------------------------------------- C12
\* A fetch of the url failed or brought an empty body.
FetchFailed(u) == Count(trace[u], "failed") >= 1

\* No record of the url, whole or in part, is in the archive.
NothingArchived(u) == Find(warc_file, <<"WARC-Target-URI: ">> \o u) = 0

\* C12: a url whose fetch failed or came back empty has its row at status
\* processing with null location fields, has nothing in the archive and no id
\* on indexing_queue or with the indexer, and was fetched that one time only,
\* whatever was queued afterwards.
C12_FailedFetchTombstone ==
  \A u \in Urls :
    FetchFailed(u) =>
      /\ HasRow(u)
      /\ \A id \in Ids :
           documents[id].url = u =>
             /\ documents[id].status = "processing"
             /\ documents[id].file_path = NULL_PATH
             /\ documents[id].offset = NULL
             /\ documents[id].length = NULL
             /\ id \notin QueuedIds
      /\ NothingArchived(u)
      /\ Count(trace[u], "fetch") = 1
      /\ Count(trace[u], "write_record") = 0

\* The url of a failed fetch was queued again, popped again and its INSERT
\* has returned nothing.
C12_Witness ==
  \E w \in Workers :
    /\ c_pc[w] = "skip"
    /\ trace[c_url[w]] = <<"reserve", "fetch", "failed">>

\* --------------------------------------------------------------- C13
\* The crawler w has just made an attempt of the push loop.
PushTaken(w) ==
  /\ c_pc[w] = "push"
  /\ c_pc'[w] # "boot"
  /\ <<c_pc'[w], c_attempt'[w]>> # <<c_pc[w], c_attempt[w]>>

\* The crawler w has just left the handling of the failed push loop.
NotQueuedTaken(w) == c_pc[w] = "notq" /\ c_pc'[w] = "pop"

\* C13 as stated: when all 3 attempts have failed the status of the row
\* becomes crawled_not_queued.
C13_AsStated ==
  [][\A w \in Workers :
       NotQueuedTaken(w) =>
         documents'[c_doc_id[w]].status = "crawled_not_queued"]_vars

\* C13, amended: an attempt is made only for a row at status crawled and
\* after fewer than 3 failures; a successful attempt appends the id to
\* indexing_queue, leaves the row as it is and ends the loop; a failed one
\* pushes nothing and is followed by another attempt unless it was the third;
\* after the third failure the UPDATE to crawled_not_queued is issued, and the
\* row is at crawled_not_queued if it commits and stays at crawled if it
\* fails.
C13_PushRetryOutcome ==
  [][\A w \in Workers :
       LET id == c_doc_id[w]
       IN  /\ c_pc[w] = "push" =>
                /\ c_attempt[w] < MAX_RETRIES
                /\ documents[id].status = "crawled"
           /\ c_pc[w] = "notq" => c_attempt[w] = MAX_RETRIES
           /\ PushTaken(w) =>
                /\ documents' = documents
                /\ \/ /\ indexing_queue' = Append(indexing_queue, to_string(id))
                      /\ c_pc'[w] = "pop"
                   \/ /\ indexing_queue' = indexing_queue
                      /\ c_attempt'[w] = c_attempt[w] + 1
                      /\ c_pc'[w] = IF c_attempt'[w] = MAX_RETRIES
                                    THEN "notq" ELSE "push"
           /\ NotQueuedTaken(w) =>
                /\ indexing_queue' = indexing_queue
                /\ \/ documents' =
                        [documents EXCEPT ![id].status = "crawled_not_queued"]
                   \/ documents' = documents]_vars

\* Without any crash, a row is at crawled, its id was never pushed, and the
\* crawler is back at the pop: the three attempts failed and so did the
\* UPDATE.
C13_Witness ==
  /\ n_crashes = 0
  /\ c_pc[1] = "pop"
  /\ \E id \in Ids :
       /\ documents[id].status = "crawled"
       /\ trace[documents[id].url] =
            <<"reserve", "fetch", "write_record", "mark_crawled">>

\* --------------------------------------------------------------- C14
\* C14: on a damaged archive, whatever fails for a document (no row, file
\* not opened, short read, inflate error, no CRLF CRLF, failed UPDATE), every
\* row stays at crawled, the rows of the documents that cannot be read keep a
\* null doc_length, a document that fails before the merge changes neither
\* the table nor the index, the UPDATE of doc_length either commits or leaves
\* the table as it was, and the indexer is back at its pop.
C14_ErrorKeepsCrawled ==
  [][/\ \A id \in Ids :
          /\ documents'[id].status = "crawled"
          /\ id \in FailingIds => documents'[id].doc_length = NULL
     /\ (i_pc = "load" /\ i_doc_id \in FailingIds) => i_pc' = "pop"
     /\ (i_pc = "load" /\ i_pc' = "pop") =>
          /\ documents' = documents
          /\ index' = index
     /\ i_pc = "setlen" =>
          /\ i_pc' = "pop"
          /\ \/ documents' = documents
             \/ documents' =
                  [documents EXCEPT ![i_doc_id].doc_length = i_ntokens]
     /\ i_pc' \in {"pop", "load", "merge", "setlen"}]_vars

\* The readable document was queued behind the four that fail; they have been
\* popped and dropped, and it has been read and merged.
C14_Witness ==
  /\ documents = DamagedTable
  /\ warc_file = DamagedArchive
  /\ indexing_queue = <<>>
  /\ i_pc = "setlen"
  /\ i_doc_id = 1
  /\ Posted(1, T_CAT)

\* --------------------------------------------------------------- C15
\* write_record raised an error for the url.
WriteRaised(u) == Count(trace[u], "raised") >= 1

\* C15: a url for which write_record raised has its row at status processing
\* with null location fields, was never marked crawled or pushed, and its id
\* is not on indexing_queue or with the indexer, whatever part of its record
\* reached the archive.
C15_WriteErrorNoCommit ==
  \A u \in Urls :
    WriteRaised(u) =>
      /\ Count(trace[u], "mark_crawled") = 0
      /\ Count(trace[u], "push_tail") = 0
      /\ HasRow(u)
      /\ \A id \in Ids :
           documents[id].url = u =>
             /\ documents[id].status = "processing"
             /\ documents[id].file_path = NULL_PATH
             /\ documents[id].offset = NULL
             /\ documents[id].length = NULL
             /\ id \notin QueuedIds

\* write_record raised for a url after a part of its record, not all of it,
\* had reached the archive, and the crawler has gone on.
C15_Witness ==
  \E u \in Urls :
    /\ WriteRaised(u)
    /\ ~NothingArchived(u)
    /\ Find(warc_file, RecordBytes(u, Page(u))) = 0
    /\ c_pc[1] = "pop"
    /\ n_crashes = 0

\* --------------------------------------------------------------- C16
\* The ASCII letters and digits among the characters of the texts.
TokAlnum == {"a", "C", "1"}

\* s[i..j] is a maximal run of letters and digits of s.
IsRun(s, i, j) ==
  /\ i <= j
  /\ \A k \in i..j : s[k] \in TokAlnum
  /\ i = 1 \/ s[i - 1] \notin TokAlnum
  /\ j = Len(s) \/ s[j + 1] \notin TokAlnum

\* The maximal runs of s that are at least 3 long.
LongRuns(s) ==
  { r \in (1..Len(s)) \X (1..Len(s)) :
      IsRun(s, r[1], r[2]) /\ r[2] - r[1] + 1 >= 3 }

LowerCased(s, i, j) ==
  [k \in 1..(j - i + 1) |-> IF s[i + k - 1] = "C" THEN "c" ELSE s[i + k - 1]]

\* The runs of R, lowercased, in the order of their places in s.
RECURSIVE RunsInOrder(_, _)
RunsInOrder(s, R) ==
  IF R = {} THEN <<>>
  ELSE LET r == CHOOSE x \in R : \A y \in R : x[1] <= y[1]
       IN  <<LowerCased(s, r[1], r[2])>> \o RunsInOrder(s, R \ {r})

\* C16: every call of tokenize(s) returns the maximal runs of letters and
\* digits of s that are at least 3 long, lowercased, in text order and with
\* repeats; so every token is at least 3 long and made of [a-z0-9], and two
\* calls on the same s return the same sequence.
C16_TokenizeRuns ==
  \A k \in 1..Len(result) :
    /\ result[k] = RunsInOrder(arg, LongRuns(arg))
    /\ \A i \in 1..Len(result[k]) :
         /\ Len(result[k][i]) >= 3
         /\ \A j \in 1..Len(result[k][i]) : result[k][i][j] \in {"a", "c", "1"}
    /\ result[k] = result[1]

\* "aC1-aC1" was tokenized twice: the token ac1 twice, each time.
C16_Witness ==
  /\ arg = <<"a", "C", "1", "-", "a", "C", "1">>
  /\ Len(result) = 2
  /\ result[2] = <<<<"a", "c", "1">>, <<"a", "c", "1">>>>

\* --------------------------------------------------------------- C17
\* C17: an indexer process started with DB_CONN_STR and DB_PASS both unset
\* fails before it connects; started with DB_CONN_STR set, it uses that
\* string as it is.
C17_FailFastWithoutPass ==
  \A k \in 1..Len(result) :
    result[k].by = "main" =>
      /\ (arg["DB_CONN_STR"] = UNSET /\ arg["DB_PASS"] = UNSET) =>
           ~result[k].started
      /\ arg["DB_CONN_STR"] # UNSET =>
           /\ result[k].started
           /\ result[k].conn = arg["DB_CONN_STR"]

\* --------------------------------------------------------------- C18
\* The threads inside write_record, past the lock.
InWrite == { t \in Workers : c_pc[t] \in {"t_locked", "t_sought", "t_half"} }

\* C18: with threads calling write_record on one writer, at most one thread
\* is past the lock at a time, the byte range of every returned record holds
\* exactly the compressed bytes of that call's record, and the ranges of two
\* returned records do not overlap.
C18_SerializedAppends ==
  /\ Cardinality(InWrite) <= 1
  /\ \A k \in 1..Len(returned) :
       /\ returned[k].offset >= 0
       /\ SubSeq(warc_file, returned[k].offset + 1,
                 returned[k].offset + returned[k].length)
            = RecordBytes(returned[k].url, returned[k].content)
  /\ \A j \in 1..Len(returned), k \in 1..Len(returned) :
       j < k =>
         \/ returned[j].offset + returned[j].length <= returned[k].offset
         \/ returned[k].offset + returned[k].length <= returned[j].offset

\* One call has returned; a thread holds the lock with half of its record
\* written behind the returned one while the other thread, which has called
\* too, waits at the lock.
C18_Witness ==
  \E t \in Workers, u \in Workers :
    /\ Len(returned) = 1
    /\ write_mutex = t
    /\ c_pc[t] = "t_half"
    /\ c_info[t].offset = returned[1].length
    /\ c_pc[u] = "t_call"

\* C19: at crawler startup the seed URL is pushed onto crawl_queue if and
\* only if the queue length read at startup is 0: the start-up check leads
\* to the seeding push exactly when the queue is empty and itself pushes
\* nothing, a start-up that gets past the seeding push has appended the seed
\* URL exactly once, a start-up that ends there has pushed nothing, and the
\* seed URL enters the queue in no other way; once the seed went onto an
\* empty queue, the next pop takes the seed URL and goes on to process it.
SeedStep(w) == c_pc[w] = "seed" /\ c_pc'[w] = "open"

C19_Step ==
  /\ \A w \in Workers :
       /\ (c_pc[w] = "boot" /\ c_pc'[w] # "boot")
            => /\ c_pc'[w] \in {"seed", "open"}
               /\ (c_pc'[w] = "seed") <=> (Len(crawl_queue) = 0)
               /\ crawl_queue' = crawl_queue
       /\ SeedStep(w) => crawl_queue' = Append(crawl_queue, SEED_URL)
       /\ (c_pc[w] = "seed" /\ c_pc'[w] = "boot")
            => crawl_queue' = crawl_queue
  /\ (/\ Len(crawl_queue') > Len(crawl_queue)
      /\ crawl_queue'[Len(crawl_queue')] = SEED_URL)
       => \E w \in Workers : SeedStep(w)
  /\ (seeded /\ Len(crawl_queue') < Len(crawl_queue))
       => \E w \in Workers :
            /\ c_pc[w] = "pop"
            /\ c_pc'[w] = "reserve"
            /\ c_url'[w] = SEED_URL

Overlaps(row, from, to) ==
  /\ row.offset # NULL
  /\ row.length # NULL
  /\ from < to
  /\ row.offset < to
  /\ from < row.offset + row.length

C20_Leaked ==
  \A s \in stopped :
    /\ s.id \in 1..Len(documents)
    /\ documents[s.id].url = s.url
    /\ documents[s.id].status = "processing"
    /\ documents[s.id].offset = NULL
    /\ documents[s.id].length = NULL
    /\ \A id \in 1..Len(documents) :
         ~Overlaps(documents[id], s.from, s.to)

C20_Step ==
  \A s \in stopped :
    /\ s \in stopped'
    /\ Count(trace'[s.url], "fetch") = Count(trace[s.url], "fetch")
    /\ \A w \in Workers : c_pc'[w] = "fetch" => c_url'[w] # s.url

C20_StoppedRowStaysLeaked == []C20_Leaked /\ [][C20_Step]_vars

\* The crawler stopped with bytes of the seed's record in the archive; since
\* the restart another URL was crawled behind those bytes, and the seed URL
\* was popped again and is being skipped.
C20_Witness ==
  \E s \in stopped, id \in 1..Len(documents) :
    /\ s.from < s.to
    /\ c_pc[1] = "skip"
    /\ c_url[1] = s.url
    /\ documents[id].status = "crawled"
    /\ documents[id].offset >= s.to

\* C21: no step of the indexer changes the url, status, file_path, offset or
\* length of a row, the number of rows or the archive file; no step of the
\* crawler changes the doc_length of a row or an entry of the inverted index
\* (a row the crawler inserts has no doc_length).
CrawlerColumns(row) ==
  <<row.url, row.status, row.file_path, row.offset, row.length>>

IndexerFrame ==
  /\ Len(documents') = Len(documents)
  /\ \A id \in 1..Len(documents) :
       CrawlerColumns(documents'[id]) = CrawlerColumns(documents[id])
  /\ warc_file' = warc_file

CrawlerFrame ==
  /\ Len(documents') >= Len(documents)
  /\ \A id \in 1..Len(documents') :
       documents'[id].doc_length =
         IF id <= Len(documents) THEN documents[id].doc_length ELSE NULL
  /\ index' = index

C21_Ownership ==
  [][(NextIndexer => IndexerFrame) /\ (NextCrawlers => CrawlerFrame)]_vars

\* The indexer has stored the doc_length and the postings of a crawled row
\* and the crawler has since crawled another row.
C21_Witness ==
  \E id \in 1..Len(documents), later \in 1..Len(documents) :
    /\ id < later
    /\ documents[id].status = "crawled"
    /\ documents[id].doc_length # NULL
    /\ index # EmptyStore
    /\ documents[later].status = "crawled"

\* C22: the doc_length the indexer has stored for a row is the number of
\* tokens the tokenizer returns for the row's archived document, repeats
\* counted, whatever the number of distinct tokens merged into the index.
RowTokens(row) == ExtractTokens(LoadPayload(row, warc_file).html_content)

C22_DocLengthCountsRepeats ==
  \A id \in 1..Len(documents) :
    documents[id].doc_length # NULL
      => documents[id].doc_length = Len(RowTokens(documents[id]))

\* An indexed row whose document repeats a token: two tokens, one distinct.
C22_Witness ==
  \E id \in 1..Len(documents) :
    /\ documents[id].doc_length = 2
    /\ Cardinality(SeqToSet(RowTokens(documents[id]))) = 1
    /\ i_pc = "pop"

\* C23: the text extracted from an element other than script or style is
\* the extracted texts of its children, the empty ones left out, with exactly
\* one space between consecutive ones and none before the first or after the
\* last; a script or style element and a node that is neither text nor
\* element give the empty text, a text node gives its text.
RECURSIVE JoinedText(_)
RECURSIVE JoinNonEmpty(_, _, _)
JoinNonEmpty(children, i, contents) ==
  IF i > Len(children) THEN contents
  ELSE LET text == JoinedText(children[i])
           sep == IF contents # <<>> /\ text # <<>> THEN <<" ">> ELSE <<>>
       IN  JoinNonEmpty(children, i + 1, contents \o sep \o text)

JoinedText(node) ==
  IF node.type = "text" THEN node.text
  ELSE IF node.type = "element" /\ node.tag \notin {"script", "style"}
  THEN JoinNonEmpty(node.children, 1, <<>>)
  ELSE <<>>

C23_JoinedBySingleSpace ==
  \A k \in 1..Len(result) : result[k] = JoinedText(arg)

\* C24: over the whole run, restarts of the crawler included, the id of a
\* row is pushed onto indexing_queue at most once, whatever the number of
\* attempts, so that it lies on the queue or with the indexer at most once
\* and the one indexer indexes the document at most once.
Pushes(id) == Count(trace[documents[id].url], "push_tail")

C24_PushedAtMostOnce ==
  \A id \in 1..Len(documents) :
    /\ Pushes(id) <= 1
    /\ Count(indexing_queue, to_string(id))
         + (IF i_doc_id = id THEN 1 ELSE 0) <= Pushes(id)
    /\ Count(trace[documents[id].url], "index") <= Pushes(id)

\* The id of a row was pushed and indexed, the crawler was restarted since,
\* and the row's url has come off crawl_queue once more.
C24_Witness ==
  \E id \in 1..Len(documents), w \in Workers :
    /\ Pushes(id) = 1
    /\ Count(trace[documents[id].url], "index") = 1
    /\ n_crashes >= 1
    /\ c_pc[w] = "skip"
    /\ c_url[w] = documents[id].url

\* C25: the byte ranges [offset, offset + length) of two distinct rows whose
\* location is set in the same archive file are disjoint, and the range of
\* every such row lies within the file as it is (one crawler process).
Located(row) ==
  row.file_path # NULL_PATH /\ row.offset # NULL /\ row.length # NULL

C25_RangesDisjointInFile ==
  \A a \in 1..Len(documents) :
    Located(documents[a]) =>
      /\ 0 <= documents[a].offset
      /\ 0 <= documents[a].length
      /\ documents[a].offset + documents[a].length <= Len(warc_file)
      /\ \A b \in 1..Len(documents) :
           (/\ b # a
            /\ Located(documents[b])
            /\ documents[b].file_path = documents[a].file_path)
             => \/ documents[a].offset + documents[a].length
                     <= documents[b].offset
                \/ documents[b].offset + documents[b].length
                     <= documents[a].offset

\* Two rows are located in the archive, the second one right behind the
\* first and up to the end of the file.
C25_Witness ==
  \E a \in 1..Len(documents), b \in 1..Len(documents) :
    /\ Located(documents[a])
    /\ Located(documents[b])
    /\ documents[a].length > 0
    /\ documents[b].offset = documents[a].offset + documents[a].length
    /\ Len(warc_file) = documents[b].offset + documents[b].length

\* C26: every id in the posting list of a token is the id of a row that
\* has been marked crawled and whose archived document has that token, and
\* no step takes an id out of a posting list.
PostingIds(store, t) == SeqToSet(GetlineSplit(store[t]))

PostingsValid ==
  \A t \in DOMAIN index :
    \A d \in PostingIds(index, t) :
      \E id \in 1..Len(documents) :
        /\ d = to_string(id)
        /\ documents[id].status \in {"crawled", "crawled_not_queued"}
        /\ t \in DocTokens(documents[id])

PostingsKept ==
  \A t \in DOMAIN index :
    /\ t \in DOMAIN index'
    /\ PostingIds(index, t) \subseteq PostingIds(index', t)

C26_PostingsValidAndKept == []PostingsValid /\ [][PostingsKept]_vars

\* C27: in a run without crashes and failures in which the crawler and the
\* indexer keep running, every valid url that lies on crawl_queue and has no
\* row eventually has a row at status crawled with its doc_length set, and
\* every id that lies on indexing_queue is eventually popped by the indexer.
Indexed(url) ==
  \E id \in 1..Len(documents) :
    /\ documents[id].url = url
    /\ documents[id].status = "crawled"
    /\ documents[id].doc_length # NULL

Queued(url) ==
  /\ is_valid_url(url)
  /\ url \in SeqToSet(crawl_queue)
  /\ ~HasRow(url)

DocIds == 1..Cardinality(Urls)

C27_EventuallyIndexed ==
  /\ \A url \in Urls : Queued(url) ~> Indexed(url)
  /\ \A id \in DocIds :
       (to_string(id) \in SeqToSet(indexing_queue)) ~> (i_doc_id = id)

\* The seed and a producer's url have both been crawled and indexed, and
\* both queues are drained.
C27_Witness ==
  /\ Indexed(SEED_URL)
  /\ Indexed(U_A)
  /\ crawl_queue = <<>>
  /\ indexing_queue = <<>>
  /\ i_pc = "pop"

====
